---- MODULE Spec2Model ----
(***************************************************************************)
(* A model of the Deathroll repository.                                    *)
(*                                                                         *)
(*   - DeathrollSim.py : one game of deathrolling; the constructor runs    *)
(*     the roll loop to completion.                                        *)
(*   - DeathrollCalc.py: the memoized recurrences for the first roller's   *)
(*     loss probability and for the expected number of rolls.              *)
(*                                                                         *)
(* The two parts share no state: SimSpec runs the game, CalcSpec runs the  *)
(* calculator.  The calculator's floating point values are modelled as     *)
(* exact rationals [num, den] in lowest terms, so every statement about    *)
(* them is a statement about the recurrences without rounding.             *)
(***************************************************************************)
EXTENDS Integers, Sequences, FiniteSets, TLC

\* ------------------------------------------------------------------ bounds

\* The largest start_roll handed to the DeathrollSim constructor.
MaxStart == 4

\* Once this many rolls were made only a roll of 1 is still drawn (the game
\* itself has no such limit: the same value may be rolled for ever).
MaxRolls == 4

\* The largest n handed to the calculator's public functions.
MaxN == 6

\* The largest n and the largest simulations handed to deathroll_mc and
\* deathroll_mc_range.
MaxMcN == 3

MaxSims == 2

VARIABLES
    \* DeathrollSim: the fields of the instance under construction
    pc,             \* "idle" | "rolling" | "post" | "returned" | "raised"
    finished,       \* self.__finished
    first_rolling,  \* self.__first_rolling
    detailed,       \* self.__detailed
    n,              \* self.__n
    initial_n,      \* self.initial_n
    roll_count,     \* self.roll_count
    winner,         \* self.winner
    roll_sequence,  \* self.roll_sequence: [none |-> BOOLEAN, list |-> Seq]
    draws,          \* history: every value randint returned in this game
    \* DeathrollCalc: the module's global tables
    p_l1_n,         \* __p_l1_n
    sig_p_w1_n,     \* __sig_p_w1_n
    r_n,            \* __r_n
    sig_r_n,        \* __sig_r_n
    last,           \* history: the most recent public call and its outcome
    prev,           \* history: the public call before it
    rng,            \* history: the arguments and the result of the most
                    \* recent call when it was a p1_winrate_range
    \* DRSimulate: the frames of deathroll_mc and deathroll_mc_range
    mc,             \* deathroll_mc: its arguments, locals and position
    mc_ret,         \* what the last deathroll_mc returned or raised
    games,          \* history: the games the running deathroll_mc has made
    rg,             \* deathroll_mc_range: its arguments, locals and position
    rg_ret          \* what the last deathroll_mc_range returned or raised

simvars == <<pc, finished, first_rolling, detailed, n, initial_n,
             roll_count, winner, roll_sequence, draws>>

calcvars == <<p_l1_n, sig_p_w1_n, r_n, sig_r_n, last, prev, rng>>

mcvars == <<mc, mc_ret, games, rg, rg_ret>>

vars == <<simvars, calcvars, mcvars>>

\* ------------------------------------------------------------ DeathrollSim

\* Python's None for roll_sequence, and a list value for it.
NoneSeq == [none |-> TRUE, list |-> <<>>]

ListSeq(s) == [none |-> FALSE, list |-> s]

\* __init__, lines 50-75: the checks and the assignments before the loop.
\* A start_roll below 1 raises DeathrollValueError and leaves no instance.
DeathrollSim_init(start_roll, log_rolls) ==
    /\ pc \in {"idle", "returned", "raised"}
    /\ IF start_roll < 1
       THEN /\ pc' = "raised"
            /\ UNCHANGED <<finished, first_rolling, detailed, n, initial_n,
                           roll_count, winner, roll_sequence, draws>>
       ELSE /\ pc' = "rolling"
            /\ finished' = FALSE
            /\ first_rolling' = TRUE
            /\ detailed' = log_rolls
            /\ n' = start_roll
            /\ initial_n' = start_roll
            /\ roll_count' = 0
            /\ winner' = 0
            /\ roll_sequence' = IF log_rolls THEN ListSeq(<<>>) ELSE NoneSeq
            /\ draws' = <<>>
    /\ UNCHANGED calcvars

\* __roll with the two players of the winner assignment exchanged.
roll_swapped(k) ==
    /\ n' = k
    /\ roll_count' = roll_count + 1
    /\ roll_sequence' = IF detailed
                        THEN ListSeq(Append(roll_sequence.list, k))
                        ELSE roll_sequence
    /\ IF k = 1
       THEN /\ finished' = TRUE
            /\ winner' = IF first_rolling THEN 1 ELSE 2
            /\ UNCHANGED first_rolling
       ELSE /\ first_rolling' = ~first_rolling
            /\ UNCHANGED <<finished, winner>>

\* __roll ending the game on a draw of 2 as well.
roll_early(k) ==
    /\ n' = k
    /\ roll_count' = roll_count + 1
    /\ roll_sequence' = IF detailed
                        THEN ListSeq(Append(roll_sequence.list, k))
                        ELSE roll_sequence
    /\ IF k <= 2
       THEN /\ finished' = TRUE
            /\ winner' = IF first_rolling THEN 2 ELSE 1
            /\ UNCHANGED first_rolling
       ELSE /\ first_rolling' = ~first_rolling
            /\ UNCHANGED <<finished, winner>>

\* __roll passing the turn after the terminating 1 as well.
roll_toggle_always(k) ==
    /\ n' = k
    /\ roll_count' = roll_count + 1
    /\ roll_sequence' = IF detailed
                        THEN ListSeq(Append(roll_sequence.list, k))
                        ELSE roll_sequence
    /\ first_rolling' = ~first_rolling
    /\ IF k = 1
       THEN /\ finished' = TRUE
            /\ winner' = IF first_rolling THEN 2 ELSE 1
       ELSE UNCHANGED <<finished, winner>>

\* The effect of __roll when randint(1, self.__n) returns k.
roll(k) ==
    /\ n' = k
    /\ roll_count' = roll_count + 1
    /\ roll_sequence' = IF detailed
                        THEN ListSeq(Append(roll_sequence.list, k))
                        ELSE roll_sequence
    /\ IF k = 1
       THEN /\ finished' = TRUE
            /\ winner' = IF first_rolling THEN 2 ELSE 1
            /\ UNCHANGED first_rolling
       ELSE /\ first_rolling' = ~first_rolling
            /\ UNCHANGED <<finished, winner>>

\* One iteration of "while not self.__roll(): pass" in which the draw is k.
\* The loop is left when __roll returns self.__finished = True.
RollStep(k) ==
    /\ pc = "rolling"
    /\ k \in 1..n
    /\ k = 1 \/ roll_count < MaxRolls
    /\ roll(k)
    /\ draws' = Append(draws, k)
    /\ pc' = IF finished' THEN "post" ELSE "rolling"
    /\ UNCHANGED <<detailed, initial_n>>
    /\ UNCHANGED calcvars

\* __init__, lines 81-83: the roll count of a one-sided game is set to 0,
\* and the constructor returns.
DeathrollSim_return ==
    /\ pc = "post"
    /\ roll_count' = IF initial_n = 1 THEN 0 ELSE roll_count
    /\ pc' = "returned"
    /\ UNCHANGED <<finished, first_rolling, detailed, n, initial_n, winner,
                   roll_sequence, draws>>
    /\ UNCHANGED calcvars

SimNext ==
    \/ \E start_roll \in 0..MaxStart, log_rolls \in BOOLEAN :
           DeathrollSim_init(start_roll, log_rolls) /\ UNCHANGED mcvars
    \/ \E k \in 1..MaxStart : RollStep(k) /\ UNCHANGED mcvars
    \/ DeathrollSim_return /\ UNCHANGED mcvars


\* ----------------------------------------------------------- DeathrollCalc

\* The values of the tables: rationals [num, den] with den > 0, in lowest
\* terms, so that equal numbers are equal records.
RECURSIVE GCD(_, _)
GCD(a, b) == IF b = 0 THEN a ELSE GCD(b, a % b)

Abs(x) == IF x < 0 THEN -x ELSE x

Norm(p, q) ==
    LET g == GCD(Abs(p), Abs(q))
        s == IF q < 0 THEN -1 ELSE 1
    IN  [num |-> (s * p) \div g, den |-> (s * q) \div g]

RInt(i) == [num |-> i, den |-> 1]

RAdd(x, y) == Norm(x.num * y.den + y.num * x.den, x.den * y.den)

RSub(x, y) == Norm(x.num * y.den - y.num * x.den, x.den * y.den)

RMul(x, y) == Norm(x.num * y.num, x.den * y.den)

RDiv(x, y) == Norm(x.num * y.den, x.den * y.num)

RLess(x, y) == x.num * y.den < y.num * x.den

RLeq(x, y) == x.num * y.den <= y.num * x.den

\* The outcome of one of the module's functions: the two tables it may have
\* grown, and either the value returned or the DeathrollCalcValueError that
\* __posint raised.
Returned(tab, cum, v) == [tab |-> tab, cum |-> cum, raised |-> FALSE, val |-> v]

Raised(tab, cum) == [tab |-> tab, cum |-> cum, raised |-> TRUE, val |-> RInt(0)]

\* __posint on an integer argument: whether it returns (arg >= 1).
posint(arg) == arg >= 1

\* __p_l1's total with a numerator of 1 + sum, and with a divisor of n.
p_l1_total_bad(n_, sig) == RDiv(RAdd(RInt(1), sig), RInt(n_ + 1))

p_l1_total_den(n_, sig) == RDiv(RAdd(RInt(2), sig), RInt(n_))

\* The value __p_l1 appends for n, from the cumulative sum it fetched.
p_l1_total(n_, sig) == RDiv(RAdd(RInt(2), sig), RInt(n_ + 1))

\* __r's total with a divisor of n, and with a numerator of 1 + sum.
r_total_bad(n_, sig) == RDiv(RAdd(RInt(n_), sig), RInt(n_))

r_total_num(n_, sig) == RDiv(RAdd(RInt(1), sig), RInt(n_ - 1))

\* The value __r appends for n, from the cumulative sum it fetched.
r_total(n_, sig) == RDiv(RAdd(RInt(n_), sig), RInt(n_ - 1))

\* __sig_p_w1(n) and __p_l1(n) on the tables tab = __p_l1_n and
\* cum = __sig_p_w1_n.  A table read at index n - 1 that is past the end is
\* the IndexError branch; the recursive calls run left to right, each on the
\* tables the one before left, and the append is to the table as it then is.
RECURSIVE sig_p_w1(_, _, _), p_l1(_, _, _)
\* __sig_p_w1 without the update of its cache.
sig_p_w1_noappend(tab, cum, n_) ==
    IF ~posint(n_) THEN Raised(tab, cum)
    ELSE IF n_ <= Len(cum) THEN Returned(tab, cum, cum[n_])
    ELSE LET a == sig_p_w1(tab, cum, n_ - 1)
         IN  IF a.raised THEN a
             ELSE LET b == p_l1(a.tab, a.cum, n_)
                  IN  IF b.raised THEN b
                      ELSE LET total == RAdd(a.val, RSub(RInt(1), b.val))
                           IN  Returned(b.tab, b.cum, total)

\* __p_l1 storing the new value over the table's last entry.
p_l1_overwrite(tab, cum, n_) ==
    IF ~posint(n_) THEN Raised(tab, cum)
    ELSE IF n_ <= Len(tab) THEN Returned(tab, cum, tab[n_])
    ELSE LET a == sig_p_w1(tab, cum, n_ - 1)
         IN  IF a.raised THEN a
             ELSE LET total == p_l1_total(n_, a.val)
                  IN  Returned([a.tab EXCEPT ![Len(a.tab)] = total],
                               a.cum, total)

sig_p_w1(tab, cum, n_) ==
    IF ~posint(n_) THEN Raised(tab, cum)
    ELSE IF n_ <= Len(cum) THEN Returned(tab, cum, cum[n_])
    ELSE LET a == sig_p_w1(tab, cum, n_ - 1)
         IN  IF a.raised THEN a
             ELSE LET b == p_l1(a.tab, a.cum, n_)
                  IN  IF b.raised THEN b
                      ELSE LET total == RAdd(a.val, RSub(RInt(1), b.val))
                           IN  Returned(b.tab, Append(b.cum, total), total)

p_l1(tab, cum, n_) ==
    IF ~posint(n_) THEN Raised(tab, cum)
    ELSE IF n_ <= Len(tab) THEN Returned(tab, cum, tab[n_])
    ELSE LET a == sig_p_w1(tab, cum, n_ - 1)
         IN  IF a.raised THEN a
             ELSE LET total == p_l1_total(n_, a.val)
                  IN  Returned(Append(a.tab, total), a.cum, total)

\* __sig_r(n) and __r(n) on the tables tab = __r_n and cum = __sig_r_n.
RECURSIVE sig_r(_, _, _), r(_, _, _)
sig_r(tab, cum, n_) ==
    IF ~posint(n_) THEN Raised(tab, cum)
    ELSE IF n_ <= Len(cum) THEN Returned(tab, cum, cum[n_])
    ELSE LET a == sig_r(tab, cum, n_ - 1)
         IN  IF a.raised THEN a
             ELSE LET b == r(a.tab, a.cum, n_)
                  IN  IF b.raised THEN b
                      ELSE LET total == RAdd(a.val, b.val)
                           IN  Returned(b.tab, Append(b.cum, total), total)

r(tab, cum, n_) ==
    IF ~posint(n_) THEN Raised(tab, cum)
    ELSE IF n_ <= Len(tab) THEN Returned(tab, cum, tab[n_])
    ELSE LET a == sig_r(tab, cum, n_ - 1)
         IN  IF a.raised THEN a
             ELSE LET total == r_total(n_, a.val)
                  IN  Returned(Append(a.tab, total), a.cum, total)

\* A public call as the caller saw it.
Call(op, arg, out, v) == [op |-> op, arg |-> arg, raised |-> out.raised, val |-> v]

NoCall == [op |-> "none", arg |-> 0, raised |-> FALSE, val |-> RInt(0)]

\* A p1_winrate_range call as the caller saw it: the arguments after the
\* one-argument form was expanded, the error raised ("none" when it
\* returned) and the array returned.
RangeCall(m, n_, step, err, data) ==
    [m |-> m, n |-> n_, step |-> step, err |-> err, data |-> data]

NoRange == RangeCall(0, 0, 0, "none", <<>>)

\* p1_winrate without the complement.
p1_value_bad(l) == l

\* What p1_winrate returns from what __p_l1 returned.
p1_value(l) == RSub(RInt(1), l)

\* p1_winrate(n): 1 - __p_l1(n).
p1_winrate(n_) ==
    LET out == p_l1(p_l1_n, sig_p_w1_n, n_)
    IN  /\ p_l1_n' = out.tab
        /\ sig_p_w1_n' = out.cum
        /\ last' = Call("p1_winrate", n_, out,
                        IF out.raised THEN out.val ELSE p1_value(out.val))
        /\ prev' = last
        /\ rng' = NoRange
        /\ UNCHANGED <<r_n, sig_r_n>>
        /\ UNCHANGED <<simvars, mcvars>>

\* p2_winrate(n): __p_l1(n).
p2_winrate(n_) ==
    LET out == p_l1(p_l1_n, sig_p_w1_n, n_)
    IN  /\ p_l1_n' = out.tab
        /\ sig_p_w1_n' = out.cum
        /\ last' = Call("p2_winrate", n_, out, out.val)
        /\ prev' = last
        /\ rng' = NoRange
        /\ UNCHANGED <<r_n, sig_r_n>>
        /\ UNCHANGED <<simvars, mcvars>>

\* avg_rolls(n): __posint(n), then __r(n).
avg_rolls(n_) ==
    LET out == IF posint(n_) THEN r(r_n, sig_r_n, n_) ELSE Raised(r_n, sig_r_n)
    IN  /\ r_n' = out.tab
        /\ sig_r_n' = out.cum
        /\ last' = Call("avg_rolls", n_, out, out.val)
        /\ prev' = last
        /\ rng' = NoRange
        /\ UNCHANGED <<p_l1_n, sig_p_w1_n>>
        /\ UNCHANGED <<simvars, mcvars>>

\* The slice with its stop index included.
slice_inclusive(tab, start, has_stop, stop, step) ==
    LET len == Len(tab)
        lo == IF step > 0 THEN IF start < len THEN start ELSE len
              ELSE IF start < len - 1 THEN start ELSE len - 1
        hi == IF step > 0
              THEN IF has_stop /\ stop + 1 < len THEN stop + 1 ELSE len
              ELSE IF ~has_stop THEN -1
                   ELSE IF stop - 1 < len - 1 THEN stop - 1 ELSE len - 1
        cnt == IF step > 0
               THEN IF hi > lo THEN ((hi - lo - 1) \div step) + 1 ELSE 0
               ELSE IF lo > hi THEN ((lo - hi - 1) \div (-step)) + 1 ELSE 0
    IN  [i \in 1..cnt |-> tab[lo + (i - 1) * step + 1]]

\* A slice tab[start : stop : step] of a table of length Len(tab), for
\* start >= 0, stop >= 0 (or no stop, has_stop = FALSE) and step /= 0, as
\* Python clips it: a positive step runs from min(start, len) up to below
\* min(stop, len), a negative step from min(start, len - 1) down to above
\* min(stop, len - 1), or down to index 0 without a stop.
slice(tab, start, has_stop, stop, step) ==
    LET len == Len(tab)
        lo == IF step > 0 THEN IF start < len THEN start ELSE len
              ELSE IF start < len - 1 THEN start ELSE len - 1
        hi == IF step > 0
              THEN IF has_stop /\ stop < len THEN stop ELSE len
              ELSE IF ~has_stop THEN -1
                   ELSE IF stop < len - 1 THEN stop ELSE len - 1
        cnt == IF step > 0
               THEN IF hi > lo THEN ((hi - lo - 1) \div step) + 1 ELSE 0
               ELSE IF lo > hi THEN ((lo - hi - 1) \div (-step)) + 1 ELSE 0
    IN  [i \in 1..cnt |-> tab[lo + (i - 1) * step + 1]]

\* 1 - data, element by element.
complement(data) == [i \in 1..Len(data) |-> RSub(RInt(1), data[i])]

\* The body of p1_winrate_range(m, n, step) on the tables tab and cum, for
\* integer arguments: the tables it leaves, the error it raises ("none" when
\* it returns) and the array it returns.  n = 0 skips __posint; the tables
\* are grown to max(m, n) before the slice is taken, and a step of 0 is
\* refused by the slice itself, with Python's own ValueError.
range_body(tab, cum, m, n_, step) ==
    IF (n_ /= 0 /\ ~posint(n_)) \/ ~posint(m)
    THEN [tab |-> tab, cum |-> cum,
          err |-> "DeathrollCalcValueError", data |-> <<>>]
    ELSE LET out == p_l1(tab, cum, IF m > n_ THEN m ELSE n_)
             st == IF m > n_ /\ step = 1 THEN -1 ELSE step
         IN  IF st = 0
             THEN [tab |-> out.tab, cum |-> out.cum,
                   err |-> "ValueError", data |-> <<>>]
             ELSE [tab |-> out.tab, cum |-> out.cum, err |-> "none",
                   data |-> complement(
                       slice(out.tab, m - 1, n_ > 0, n_ - 1, st))]

\* p1_winrate_range(m, n, step); one_arg is the call p1_winrate_range(m),
\* which stands for p1_winrate_range(1, m).
p1_winrate_range(m0, n0, step, one_arg) ==
    LET m == IF one_arg THEN 1 ELSE m0
        n_ == IF one_arg THEN m0 ELSE n0
    IN  \E res \in {range_body(p_l1_n, sig_p_w1_n, m, n_, step)} :
            /\ p_l1_n' = res.tab
            /\ sig_p_w1_n' = res.cum
            /\ rng' = RangeCall(m, n_, step, res.err, res.data)
            /\ last' = NoCall
            /\ prev' = NoCall
            /\ UNCHANGED <<r_n, sig_r_n>>
            /\ UNCHANGED <<simvars, mcvars>>

\* The steps handed to p1_winrate_range.
Steps == {-1, 0, 1, 2}

RangeNext ==
    \/ \E n_ \in 0..MaxN : p1_winrate(n_)
    \/ \E m \in 0..MaxN, n_ \in -1..MaxN, step \in Steps :
           p1_winrate_range(m, n_, step, FALSE)
    \/ \E m \in 0..MaxN, step \in Steps :
           p1_winrate_range(m, 0, step, TRUE)

CalcNext ==
    \/ \E n_ \in 0..MaxN : p1_winrate(n_)
    \/ \E n_ \in 0..MaxN : p2_winrate(n_)
    \/ \E n_ \in 0..MaxN : avg_rolls(n_)

\* -------------------------------------------------------------- DRSimulate

\* No frame of deathroll_mc, and none of deathroll_mc_range.
McIdle ==
    [pc |-> "idle", n |-> 0, simulations |-> 0, time_info |-> FALSE,
     caller |-> "user", i |-> 0, p1_wins |-> 0, roll_count |-> 0]

RgIdle ==
    [pc |-> "idle", args |-> <<>>, n_range |-> <<>>, len |-> 0,
     simulations |-> 0, time_info |-> FALSE, data |-> <<>>]

\* How a call ended, as its caller saw it: "returned" with a value, or
\* "raised" with an error; cause is "OSError" when a print of the timing
\* text failed.  args are the call's arguments.
NoResult ==
    [status |-> "none", err |-> "none", cause |-> "none",
     args |-> <<>>, val |-> <<>>]

McReturned(args, val) ==
    [status |-> "returned", err |-> "none", cause |-> "none",
     args |-> args, val |-> val]

McRaised(args, err, cause) ==
    [status |-> "raised", err |-> err, cause |-> cause,
     args |-> args, val |-> <<>>]

\* The error that leaves "except OSError as ose: raise
\* DRSimualteFileError(...)": the module defines DRSimulateFileError, and
\* the name the handler looks up is not defined, so the raise statement
\* itself fails with a NameError.
handler_error == "NameError"

\* What a game adds to p1_wins: counting the second roller's wins instead.
tally_win_second(w) == IF w = 2 THEN 1 ELSE 0

\* What a game adds to p1_wins: 1 if sim.winner == 1 else 0.
tally_win(w) == IF w = 1 THEN 1 ELSE 0

\* The row deathroll_mc_range appends for n: (n, d_n[0], d_n[1]).
mc_row(n_, d_n) == <<RInt(n_), d_n[1], d_n[2]>>

\* np.arange(a, b, st) for a step other than 0.
RECURSIVE arange(_, _, _)
arange(a, b, st) ==
    IF (st > 0 /\ a < b) \/ (st < 0 /\ a > b)
    THEN <<a>> \o arange(a + st, b, st)
    ELSE <<>>

\* The frame of a deathroll_mc(n, simulations, time_info) that has passed
\* its checks and its first print.
McFrame(n_, simulations, time_info, caller) ==
    [pc |-> "loop", n |-> n_, simulations |-> simulations,
     time_info |-> time_info, caller |-> caller,
     i |-> 0, p1_wins |-> 0, roll_count |-> 0]

\* deathroll_mc(n, simulations, time_info, outfile) called by the user, up to
\* the loop: __posint on n and simulations, then the first print, which
\* fails with an OSError when oserror.
deathroll_mc(n_, simulations, time_info, oserror) ==
    /\ mc.pc = "idle" /\ rg.pc = "idle"
    /\ IF ~posint(n_) \/ ~posint(simulations)
       THEN /\ mc_ret' = McRaised(<<n_, simulations>>,
                                  "DRSimulateValueError", "none")
            /\ UNCHANGED <<mc, games>>
       ELSE IF time_info /\ oserror
       THEN /\ mc_ret' = McRaised(<<n_, simulations>>,
                                  handler_error, "OSError")
            /\ UNCHANGED <<mc, games>>
       ELSE /\ mc' = McFrame(n_, simulations, time_info, "user")
            /\ mc_ret' = NoResult
            /\ games' = <<>>
    /\ UNCHANGED <<simvars, calcvars, rg, rg_ret>>

\* The loop of deathroll_mc: sim = drs.DeathrollSim(n) begins.
mc_game_init ==
    /\ mc.pc = "loop"
    /\ mc.i < mc.simulations
    /\ DeathrollSim_init(mc.n, FALSE)
    /\ mc' = [mc EXCEPT !.pc = "game"]
    /\ UNCHANGED <<mc_ret, games, rg, rg_ret>>

\* A roll of the game under construction.
mc_game_roll(k) ==
    /\ mc.pc = "game"
    /\ RollStep(k)
    /\ UNCHANGED mcvars

\* The constructor returns and the loop body tallies the game.
mc_game_done ==
    /\ mc.pc = "game"
    /\ DeathrollSim_return
    /\ mc' = [mc EXCEPT !.pc = "loop",
                        !.i = @ + 1,
                        !.p1_wins = @ + tally_win(winner),
                        !.roll_count = @ + roll_count']
    /\ games' = Append(games, [start |-> initial_n, detailed |-> detailed,
                               winner |-> winner, roll_count |-> roll_count'])
    /\ UNCHANGED <<mc_ret, rg, rg_ret>>

\* After the loop: the second print, which fails with an OSError when
\* oserror, and the return of the pair.  A call made by deathroll_mc_range
\* (which passes no time_info) hands the pair to its loop, which appends
\* the row for n.
mc_return(oserror) ==
    /\ mc.pc = "loop"
    /\ mc.i = mc.simulations
    /\ mc' = McIdle
    /\ UNCHANGED <<simvars, calcvars, games, rg_ret>>
    /\ IF mc.time_info /\ oserror
       THEN /\ mc_ret' = McRaised(<<mc.n, mc.simulations>>,
                                  handler_error, "OSError")
            /\ UNCHANGED rg
       ELSE LET d_n == <<Norm(mc.p1_wins, mc.simulations),
                         Norm(mc.roll_count, mc.simulations)>>
            IN  /\ mc_ret' = McReturned(<<mc.n, mc.simulations>>, d_n)
                /\ rg' = IF mc.caller = "range"
                         THEN [rg EXCEPT !.data = Append(@, mc_row(mc.n, d_n)),
                                         !.n_range = Tail(@)]
                         ELSE rg

\* deathroll_mc_range(n_min, n_max, step, simulations, time_info), up to its
\* loop, called with a and b for n_min and n_max; one_arg is the call
\* deathroll_mc_range(a), which stands for deathroll_mc_range(1, a).
deathroll_mc_range(a, b, step, simulations, time_info, oserror, one_arg) ==
    LET n_min == IF one_arg THEN 1 ELSE a
        n_max == IF one_arg THEN a ELSE b
        args == <<n_min, n_max, step, simulations>>
    IN  /\ mc.pc = "idle" /\ rg.pc = "idle"
        /\ IF ~posint(n_min) \/ ~posint(n_max) \/ ~posint(simulations)
           THEN /\ rg_ret' = McRaised(args, "DRSimulateValueError", "none")
                /\ UNCHANGED rg
           ELSE IF time_info /\ oserror
           THEN /\ rg_ret' = McRaised(args, handler_error, "OSError")
                /\ UNCHANGED rg
           ELSE /\ rg' = [pc |-> "loop", args |-> args,
                          n_range |-> arange(n_min, n_max, step),
                          len |-> Len(arange(n_min, n_max, step)),
                          simulations |-> simulations,
                          time_info |-> time_info, data |-> <<>>]
                /\ rg_ret' = NoResult
        /\ UNCHANGED <<simvars, calcvars, mc, mc_ret, games>>

\* The loop of deathroll_mc_range: d_n = deathroll_mc(n, simulations) is
\* called for the next n of n_range.
rg_iter ==
    /\ rg.pc = "loop"
    /\ mc.pc = "idle"
    /\ rg.n_range /= <<>>
    /\ mc' = McFrame(Head(rg.n_range), rg.simulations, FALSE, "range")
    /\ mc_ret' = NoResult
    /\ games' = <<>>
    /\ UNCHANGED <<simvars, calcvars, rg, rg_ret>>

\* After the loop: data.reshape(len(n_range), 3), the last print, which
\* fails with an OSError when oserror, and the return of data.
rg_return(oserror) ==
    /\ rg.pc = "loop"
    /\ mc.pc = "idle"
    /\ rg.n_range = <<>>
    /\ Len(rg.data) = rg.len
    /\ rg_ret' = IF rg.time_info /\ oserror
                 THEN McRaised(rg.args, handler_error, "OSError")
                 ELSE McReturned(rg.args, rg.data)
    /\ rg' = RgIdle
    /\ UNCHANGED <<simvars, calcvars, mc, mc_ret, games>>

\* The steps handed to deathroll_mc_range.
McSteps == {-1, 1, 2}

McNext ==
    \/ \E n_ \in 0..MaxMcN, simulations \in 0..MaxSims,
          time_info \in BOOLEAN, oserror \in BOOLEAN :
           deathroll_mc(n_, simulations, time_info, oserror)
    \/ mc_game_init
    \/ \E k \in 1..MaxMcN : mc_game_roll(k)
    \/ mc_game_done
    \/ \E oserror \in BOOLEAN : mc_return(oserror)

McRangeNext ==
    \/ mc_game_init
    \/ \E k \in 1..MaxMcN : mc_game_roll(k)
    \/ mc_game_done
    \/ \E oserror \in BOOLEAN : mc_return(oserror)
    \/ \E n_min \in 0..MaxMcN, n_max \in 0..MaxMcN, step \in McSteps,
          simulations \in 1..MaxSims, time_info \in BOOLEAN,
          oserror \in BOOLEAN :
           deathroll_mc_range(n_min, n_max, step, simulations, time_info,
                              oserror, FALSE)
    \/ \E n_min \in 0..MaxMcN, time_info \in BOOLEAN, oserror \in BOOLEAN :
           deathroll_mc_range(n_min, 0, 1, 1, time_info, oserror, TRUE)
    \/ rg_iter
    \/ \E oserror \in BOOLEAN : rg_return(oserror)

\* ---------------------------------------------------------- specifications

\* No DeathrollSim instance yet, and the tables as the module's import
\* leaves them (DeathrollCalc.py lines 25, 29, 37 and 41).
Init ==
    /\ pc = "idle"
    /\ finished = FALSE
    /\ first_rolling = TRUE
    /\ detailed = FALSE
    /\ n = 1
    /\ initial_n = 1
    /\ roll_count = 0
    /\ winner = 0
    /\ roll_sequence = NoneSeq
    /\ draws = <<>>
    /\ p_l1_n = <<RInt(1)>>
    /\ sig_p_w1_n = <<RInt(0)>>
    /\ r_n = <<RInt(1)>>
    /\ sig_r_n = <<RInt(0)>>
    /\ last = NoCall
    /\ prev = NoCall
    /\ rng = NoRange
    /\ mc = McIdle
    /\ mc_ret = NoResult
    /\ games = <<>>
    /\ rg = RgIdle
    /\ rg_ret = NoResult

\* The game alone.
SimSpec == Init /\ [][SimNext]_vars

\* The draw is random: a 1, possible at every roll, is not avoided for
\* ever; and the constructor's straight-line tail runs.
SimFairSpec ==
    /\ SimSpec
    /\ WF_vars(RollStep(1) /\ UNCHANGED mcvars)
    /\ WF_vars(DeathrollSim_return /\ UNCHANGED mcvars)

\* The calculator's single-value functions alone.
CalcSpec == Init /\ [][CalcNext]_vars

\* The range query, on tables that p1_winrate has grown.
RangeSpec == Init /\ [][RangeNext]_vars

\* deathroll_mc called by the user, and deathroll_mc_range with the calls
\* of deathroll_mc it makes.
McSpec == Init /\ [][McNext]_vars

McRangeSpec == Init /\ [][McRangeNext]_vars

\* Every public function of the calculator.
CalcAllSpec == Init /\ [][CalcNext \/ RangeNext]_vars

\* ------------------------------------------------- claims: DeathrollSim

\* C1: in a game started at a bound of 2 or more, the game is over exactly
\* when the last value drawn is 1, no value drawn before the last is 1 (no
\* roll follows a 1), winner is set exactly when the game is over, and it is
\* then the player who did not roll the 1: the draws alternate beginning with
\* the first player, so an odd number of draws means the first player rolled
\* the 1 and winner is 2, an even number means winner is 1.
C1_EndsAtFirstOne ==
    initial_n >= 2 =>
        /\ \A i \in 1..(Len(draws) - 1) : draws[i] /= 1
        /\ finished <=> (draws /= <<>> /\ draws[Len(draws)] = 1)
        /\ (pc = "rolling") <=> ~finished
        /\ (winner /= 0) <=> finished
        /\ finished => winner = IF Len(draws) % 2 = 1 THEN 2 ELSE 1

\* A returned game of four rolls that the second player lost.
C1_Witness ==
    /\ pc = "returned"
    /\ initial_n >= 2
    /\ Len(draws) = 4
    /\ winner = 1

\* C2: whenever the constructor has returned, the game is finished, winner
\* is 1 or 2 and the last value rolled is 1; and, the draw being fair, a
\* constructor that entered its roll loop returns.
C2_RunsToCompletion ==
    /\ [](pc = "returned" =>
            /\ finished
            /\ winner \in {1, 2}
            /\ n = 1
            /\ draws /= <<>> /\ draws[Len(draws)] = 1)
    /\ (pc = "rolling" ~> pc = "returned")

\* A returned game from the largest start_roll, after at least three rolls.
C2_Witness ==
    /\ pc = "returned"
    /\ initial_n = MaxStart
    /\ Len(draws) >= 3
    /\ winner = 2

\* C3: a returned game with log_rolls and a start_roll of 2 or more has a
\* roll_sequence whose first entry is start_roll and whose last entry is 1.
C3_LogBeginsWithBound ==
    (pc = "returned" /\ detailed /\ initial_n >= 2) =>
        /\ roll_sequence.list /= <<>>
        /\ roll_sequence.list[1] = initial_n
        /\ roll_sequence.list[Len(roll_sequence.list)] = 1

\* C4: a returned game with log_rolls has as many entries in roll_sequence
\* as roll_count says, for every start_roll from 1 on.
C4_LogLengthIsRollCount ==
    (pc = "returned" /\ detailed) =>
        Len(roll_sequence.list) = roll_count

\* C5: a returned game with start_roll 1 drew no value, has roll_count 0,
\* an empty roll_sequence when it logs, and no winner.
C5_OneSidedGameHasNoRoll ==
    (pc = "returned" /\ initial_n = 1) =>
        /\ draws = <<>>
        /\ roll_count = 0
        /\ roll_sequence.list = <<>>
        /\ winner = 0

\* No entry of s is larger than the entry before it.
NonIncreasing(s) == \A i \in 1..(Len(s) - 1) : s[i + 1] <= s[i]

\* C17: in every state of a game the bound is at least 1 and at most
\* start_roll, the values rolled so far never rise, and the log, when kept,
\* is those values; and every step of the roll loop draws a value between 1
\* and the bound, makes it the bound, adds exactly 1 to roll_count, and
\* passes the turn unless the value is 1.
C17_BoundOnlyFalls ==
    /\ [](pc \in {"rolling", "post", "returned"} =>
            /\ 1 <= n /\ n <= initial_n
            /\ NonIncreasing(draws)
            /\ detailed => (/\ roll_sequence.list = draws
                            /\ NonIncreasing(roll_sequence.list)))
    /\ [][pc = "rolling" =>
            /\ Len(draws') = Len(draws) + 1
            /\ draws'[Len(draws')] \in 1..n
            /\ n' = draws'[Len(draws')]
            /\ roll_count' = roll_count + 1
            /\ first_rolling' = IF n' = 1 THEN first_rolling
                                ELSE ~first_rolling]_vars

\* A logged game in its roll loop after three falling rolls, the second
\* player to roll next.
C17_Witness ==
    /\ pc = "rolling"
    /\ detailed
    /\ Len(roll_sequence.list) = 3
    /\ roll_sequence.list[1] > roll_sequence.list[3]
    /\ roll_count = 3
    /\ ~first_rolling

\* ------------------------------------------------ claims: DeathrollCalc

\* What p1_winrate(k) and avg_rolls(k) answer for a k the tables hold.
CachedW(k) == RSub(RInt(1), p_l1_n[k])

CachedR(k) == r_n[k]

\* The sum over j in 2..k of 1 - W(j), and of R(j).
RECURSIVE SumLoss(_)
SumLoss(k) ==
    IF k < 2 THEN RInt(0)
    ELSE RAdd(SumLoss(k - 1), RSub(RInt(1), CachedW(k)))

RECURSIVE SumRolls(_)
SumRolls(k) == IF k < 2 THEN RInt(0) ELSE RAdd(SumRolls(k - 1), CachedR(k))

\* C6: a p1_winrate(n) with n >= 2 returns the value W(n) of the solution of
\* the first-step equations k * W(k) = sum over j in 2..k of (1 - W(j)): the
\* equations hold of the values the engine answers for every k it has
\* reached (each determines W(k) from the smaller ones, so the solution is
\* unique).
C6_WinProbabilityIsExact ==
    (last.op = "p1_winrate" /\ last.arg >= 2) =>
        /\ ~last.raised
        /\ Len(p_l1_n) >= last.arg
        /\ last.val = CachedW(last.arg)
        /\ \A k \in 2..Len(p_l1_n) :
               RMul(RInt(k), CachedW(k)) = SumLoss(k)

\* p1_winrate(MaxN) answered on tables an earlier call had partly filled.
C6_Witness ==
    /\ last.op = "p1_winrate" /\ last.arg = MaxN /\ ~last.raised
    /\ prev.op = "p2_winrate" /\ prev.arg = 3
    /\ Len(p_l1_n) = MaxN

\* C7: an avg_rolls(n) with n >= 2 returns the value R(n) of the solution of
\* R(k) = 1 + (1/k) * sum over j in 2..k of R(j): the equations hold of the
\* values the engine answers for every k it has reached.
C7_ExpectedRollsIsExact ==
    (last.op = "avg_rolls" /\ last.arg >= 2) =>
        /\ ~last.raised
        /\ Len(r_n) >= last.arg
        /\ last.val = CachedR(last.arg)
        /\ \A k \in 2..Len(r_n) :
               CachedR(k) = RAdd(RInt(1), RDiv(SumRolls(k), RInt(k)))

\* avg_rolls(MaxN) answered on tables an earlier call had partly filled.
C7_Witness ==
    /\ last.op = "avg_rolls" /\ last.arg = MaxN /\ ~last.raised
    /\ prev.op = "avg_rolls" /\ prev.arg = 2
    /\ Len(r_n) = MaxN

\* C8 as stated: p1_winrate(1) returns 1, whatever was called before.
C8_WinProbabilityOfOneIsOne ==
    (last.op = "p1_winrate" /\ last.arg = 1) =>
        (~last.raised /\ last.val = RInt(1))

\* C8, amended: p1_winrate(1) returns 0, whatever was called before (the
\* table's entry for the one-sided die, 1, is the first roller's probability
\* of losing, and p1_winrate returns its complement).
C8_WinProbabilityOfOneIsZero ==
    (last.op = "p1_winrate" /\ last.arg = 1) =>
        (~last.raised /\ last.val = RInt(0))

\* p1_winrate(1) after the tables were grown by an earlier call.
C8_Witness ==
    /\ last.op = "p1_winrate" /\ last.arg = 1
    /\ prev.op = "p1_winrate" /\ prev.arg = MaxN
    /\ Len(p_l1_n) = MaxN

\* The two most recent calls, when both were op and both returned.
BothReturned(op) ==
    /\ prev.op = op /\ ~prev.raised
    /\ last.op = op /\ ~last.raised

\* C9: p1_winrate is strictly increasing from 2 on (whichever of the two
\* values is asked for first), p1_winrate(2) is 1/3, and no value for an
\* n >= 2 is below 1/3 or above 1/2.
C9_WinProbabilityIncreases ==
    /\ (BothReturned("p1_winrate") /\ 2 <= prev.arg /\ prev.arg < last.arg) =>
           RLess(prev.val, last.val)
    /\ (BothReturned("p1_winrate") /\ 2 <= last.arg /\ last.arg < prev.arg) =>
           RLess(last.val, prev.val)
    /\ (last.op = "p1_winrate" /\ last.arg = 2) => last.val = Norm(1, 3)
    /\ (last.op = "p1_winrate" /\ last.arg >= 2) =>
           /\ RLeq(Norm(1, 3), last.val)
           /\ RLeq(last.val, Norm(1, 2))

\* p1_winrate(MaxN) asked for before p1_winrate(MaxN - 1).
C9_Witness ==
    /\ BothReturned("p1_winrate")
    /\ prev.arg = MaxN
    /\ last.arg = MaxN - 1

\* C10: avg_rolls is strictly increasing from 1 on (whichever of the two
\* values is asked for first), and avg_rolls(1) is 1.
C10_ExpectedRollsIncreases ==
    /\ (BothReturned("avg_rolls") /\ 1 <= prev.arg /\ prev.arg < last.arg) =>
           RLess(prev.val, last.val)
    /\ (BothReturned("avg_rolls") /\ 1 <= last.arg /\ last.arg < prev.arg) =>
           RLess(last.val, prev.val)
    /\ (last.op = "avg_rolls" /\ last.arg = 1) =>
           (~last.raised /\ last.val = RInt(1))

\* avg_rolls(1) asked for before avg_rolls(2).
C10_Witness ==
    /\ BothReturned("avg_rolls")
    /\ prev.arg = 1
    /\ last.arg = 2

\* C11: a p1_winrate_range(m, k, s) with 1 <= m < k and s >= 1 returns, in
\* order, the values p1_winrate answers for m, m + s, ... below k and no
\* other (k - m of them when s = 1); and with m > k >= 0 and the default
\* step it returns the values for m, m - 1, ..., k + 1.
C11_RangeIsHalfOpen ==
    /\ (1 <= rng.m /\ rng.m < rng.n /\ rng.step >= 1) =>
           /\ rng.err = "none"
           /\ Len(rng.data) = ((rng.n - rng.m - 1) \div rng.step) + 1
           /\ rng.step = 1 => Len(rng.data) = rng.n - rng.m
           /\ \A i \in 1..Len(rng.data) :
                  /\ rng.m + (i - 1) * rng.step < rng.n
                  /\ rng.data[i] = CachedW(rng.m + (i - 1) * rng.step)
    /\ (0 <= rng.n /\ rng.n < rng.m /\ rng.step = 1) =>
           /\ rng.err = "none"
           /\ Len(rng.data) = rng.m - rng.n
           /\ \A i \in 1..Len(rng.data) :
                  rng.data[i] = CachedW(rng.m - (i - 1))

\* A strided query of two entries, below a table grown to MaxN.
C11_Witness ==
    /\ rng.m = 2 /\ rng.n = 5 /\ rng.step = 2
    /\ Len(rng.data) = 2
    /\ Len(p_l1_n) = MaxN

\* C12: no call shrinks a table or changes an entry a table already holds,
\* and every single-value answer is the table's entry for its n (its
\* complement for p1_winrate): so two calls with the same n answer the
\* same, whatever was called between them.
IsPrefix(s, t) ==
    /\ Len(s) <= Len(t)
    /\ \A i \in 1..Len(s) : s[i] = t[i]

AnswerIsEntry ==
    /\ (last.op = "p1_winrate" /\ ~last.raised) =>
           (last.arg <= Len(p_l1_n) /\ last.val = RSub(RInt(1), p_l1_n[last.arg]))
    /\ (last.op = "p2_winrate" /\ ~last.raised) =>
           (last.arg <= Len(p_l1_n) /\ last.val = p_l1_n[last.arg])
    /\ (last.op = "avg_rolls" /\ ~last.raised) =>
           (last.arg <= Len(r_n) /\ last.val = r_n[last.arg])

C12_MemoIsAppendOnly ==
    /\ [][/\ IsPrefix(p_l1_n, p_l1_n')
          /\ IsPrefix(sig_p_w1_n, sig_p_w1_n')
          /\ IsPrefix(r_n, r_n')
          /\ IsPrefix(sig_r_n, sig_r_n')]_vars
    /\ []AnswerIsEntry

\* p1_winrate(2) answered from the cache, after a range query and an
\* avg_rolls grew the tables past it.
C12_Witness ==
    /\ last.op = "p1_winrate" /\ last.arg = 2 /\ ~last.raised
    /\ prev.op = "avg_rolls" /\ prev.arg = 3
    /\ Len(p_l1_n) = MaxN
    /\ Len(sig_p_w1_n) = MaxN - 1

\* The most recent call had an argument the engine is to refuse: a bound
\* below 1 (below 0 for the upper bound of a range, where the code takes 0
\* to mean "down to the first entry"), or a step of 0.
InvalidCall ==
    \/ last.op \in {"p1_winrate", "p2_winrate", "avg_rolls"} /\ last.arg < 1
    \/ rng /= NoRange /\ (rng.m < 1 \/ rng.n < 0 \/ rng.step = 0)

\* The most recent call raised DeathrollCalcValueError.
RaisedCalcValueError ==
    \/ last.op /= "none" /\ last.raised
    \/ rng /= NoRange /\ rng.err = "DeathrollCalcValueError"

\* C13: a call with an invalid argument raises DeathrollCalcValueError and
\* leaves the four tables as they were before it.
C13_InvalidArgumentRejectedEagerly ==
    [][InvalidCall' =>
          /\ RaisedCalcValueError'
          /\ <<p_l1_n, sig_p_w1_n, r_n, sig_r_n>>'
                 = <<p_l1_n, sig_p_w1_n, r_n, sig_r_n>>]_vars

\* The recurrence of the engine, as a function of the bound alone.
RECURSIVE RefL(_), RefS(_), RefR(_), RefT(_)
RefL(k) == IF k = 1 THEN RInt(1)
           ELSE RDiv(RAdd(RInt(2), RefS(k - 1)), RInt(k + 1))

RefS(k) == IF k = 1 THEN RInt(0)
           ELSE RAdd(RefS(k - 1), RSub(RInt(1), RefL(k)))

RefR(k) == IF k = 1 THEN RInt(1)
           ELSE RDiv(RAdd(RInt(k), RefT(k - 1)), RInt(k - 1))

RefT(k) == IF k = 1 THEN RInt(0) ELSE RAdd(RefT(k - 1), RefR(k))

\* C18: after any calls, each table holds at position k (from 1) the
\* recurrence's value for the bound k, with no gap, and each cumulative
\* table is as long as its value table or one entry shorter.
C18_TablesAreAligned ==
    /\ \A k \in 1..Len(p_l1_n) : p_l1_n[k] = RefL(k)
    /\ \A k \in 1..Len(sig_p_w1_n) : sig_p_w1_n[k] = RefS(k)
    /\ \A k \in 1..Len(r_n) : r_n[k] = RefR(k)
    /\ \A k \in 1..Len(sig_r_n) : sig_r_n[k] = RefT(k)
    /\ Len(sig_p_w1_n) <= Len(p_l1_n) /\ Len(p_l1_n) <= Len(sig_p_w1_n) + 1
    /\ Len(sig_r_n) <= Len(r_n) /\ Len(r_n) <= Len(sig_r_n) + 1

\* Both pairs of tables grown in steps: the value tables one entry longer
\* than the cumulative ones, after the smaller bounds were cached first.
C18_Witness ==
    /\ Len(p_l1_n) = MaxN /\ Len(sig_p_w1_n) = MaxN - 1
    /\ Len(r_n) = MaxN - 1 /\ Len(sig_r_n) = MaxN - 2
    /\ last.op = "avg_rolls" /\ prev.op = "avg_rolls" /\ prev.arg = 2

\* C19: the outcome of a p1_winrate_range(m, n, step) is the outcome the
\* same call has on the tables as the import leaves them.
C19_RangeIsHistoryIndependent ==
    rng /= NoRange =>
        LET fresh == range_body(<<RInt(1)>>, <<RInt(0)>>,
                                rng.m, rng.n, rng.step)
        IN  /\ rng.err = fresh.err
            /\ rng.data = fresh.data

\* --------------------------------------------------- claims: DRSimulate

\* The games of g the first roller won, and the rolls of all games of g.
RECURSIVE Wins(_)
Wins(g) ==
    IF g = <<>> THEN 0
    ELSE (IF Head(g).winner = 1 THEN 1 ELSE 0) + Wins(Tail(g))

RECURSIVE TotalRolls(_)
TotalRolls(g) == IF g = <<>> THEN 0 ELSE Head(g).roll_count + TotalRolls(Tail(g))

\* C14: a deathroll_mc(n, simulations) that returns has run exactly
\* simulations games, each begun at n without a roll log, and returns the
\* number of them the first roller won over simulations, and the sum of
\* their roll_count over simulations; the first is between 0 and 1; and no
\* n and simulations of 1 or more are refused.
C14_MonteCarloTally ==
    /\ mc_ret.status = "returned" =>
           /\ Len(games) = mc_ret.args[2]
           /\ \A i \in 1..Len(games) :
                  /\ games[i].start = mc_ret.args[1]
                  /\ ~games[i].detailed
           /\ mc_ret.val[1] = Norm(Wins(games), mc_ret.args[2])
           /\ mc_ret.val[2] = Norm(TotalRolls(games), mc_ret.args[2])
           /\ RLeq(RInt(0), mc_ret.val[1])
           /\ RLeq(mc_ret.val[1], RInt(1))
    /\ mc_ret.err = "DRSimulateValueError" =>
           (mc_ret.args[1] < 1 \/ mc_ret.args[2] < 1)

\* MaxSims games from MaxMcN returned, the first roller winning some but
\* not all of them.
C14_Witness ==
    /\ mc_ret.status = "returned"
    /\ mc_ret.args = <<MaxMcN, MaxSims>>
    /\ Wins(games) >= 1
    /\ Wins(games) < MaxSims
    /\ TotalRolls(games) > MaxSims

\* C15: a deathroll_mc_range that returns has one row for each bound of its
\* range, each row being the pair deathroll_mc returns for that bound (win
\* rate in column 0, mean roll count in column 1).
C15_TableHasTwoColumns ==
    rg_ret.status = "returned" =>
        /\ Len(rg_ret.val)
               = Len(arange(rg_ret.args[1], rg_ret.args[2], rg_ret.args[3]))
        /\ \A i \in 1..Len(rg_ret.val) : Len(rg_ret.val[i]) = 2
        /\ rg_ret.val /= <<>> =>
               rg_ret.val[Len(rg_ret.val)] = mc_ret.val

\* C16: a call whose print of the timing text failed with an OSError
\* raises DRSimulateFileError.
C16_PrintFailureIsFileError ==
    /\ mc_ret.cause = "OSError" => mc_ret.err = "DRSimulateFileError"
    /\ rg_ret.cause = "OSError" => rg_ret.err = "DRSimulateFileError"

====
